---- MODULE Spec2Model ----
(***************************************************************************)
(* Model of network/src/blocks/blocks.rs (snarkOS): the block and          *)
(* transaction relay engine, the ingestion handlers and the sync           *)
(* negotiator of one node.  Every handler invocation is a task; a task     *)
(* takes one step per access to the shared storage or pool and one step    *)
(* per run of outbound sends, so that invocations interleave exactly where *)
(* the code releases its locks.                                            *)
(***************************************************************************)
EXTENDS Integers, Sequences, FiniteSets, TLC

VARIABLES
    chain,   \* storage: chain[i] is the header hash of the canon block at height i-1
    pool,    \* pending-transaction pool: the set of pooled transactions
    pc,      \* pc[t]: the position of task t inside its handler
    call,    \* call[t]: the handler task t runs (callee) and its arguments
    loc,     \* loc[t]: the local variables of task t's handler
    sent,    \* sent[t]: the requests task t handed to outbound.broadcast, in order
    ret      \* ret[t]: what the handler of task t returned

vars == <<chain, pool, pc, call, loc, sent, ret>>

-----------------------------------------------------------------------------
(* Bounds of the model *)

NumAddrs == 3        \* socket addresses 1..NumAddrs
MaxTasks == 2        \* handler invocations per behaviour
MaxHeight == 2       \* block envelopes carry heights 1..MaxHeight
NumTxs == 1          \* transaction numbers 1..NumTxs
MaxInitHeight == 1   \* the tip height of the initial storage is 0..MaxInitHeight
MaxHashes == 2       \* length of a received hash list / locator list
MaxBatch == 3        \* length of a received MemoryPool batch
MaxDuplicates == 1   \* deliveries the network repeats in a two-node exchange

(* Program constants *)

SyncBatch == 4000    \* the most block hashes one Sync reply carries

-----------------------------------------------------------------------------
(* Values *)

Addrs == 1..NumAddrs
Tasks == 1..MaxTasks

\* self.environment.local_address().unwrap()
local_address == 1

\* The key sets of the HashMap<SocketAddr, PeerInfo> a caller can supply.
PeerDirs == SUBSET Addrs

\* Option<T> is the set of at most one T: None is {}, Some(x) is {x}.
None == {}
Some(x) == {x}
Min(a, b) == IF a < b THEN a ELSE b

IsSome(o) == o # {}
Unwrap(o) == CHOOSE x \in o : TRUE
NoCall == [callee |-> "none", remote |-> 0, data |-> <<>>, peers |-> None]

\* Every order in which the keys of a HashMap can be iterated.
Orders(S) ==
    {f \in [1..Cardinality(S) -> S] : \A i, j \in 1..Cardinality(S) : f[i] = f[j] => i = j}

\* Block bytes.  A well-formed envelope is <<height, variant>>: variant 0 is the
\* block the consensus rules accept at that height, variant 1 a block they
\* reject.  Any other byte string does not deserialize.
BlockBytes == {<<h, v>> : h \in 1..MaxHeight, v \in 0..1} \cup {<<>>}

\* header.get_hash(): injective on the headers.
HeaderHash(height, variant) == 2 * height + variant

\* BlockStruct::deserialize(&block.data)
Deserializes(data) == Len(data) = 2

\* block.serialize() when it is Ok
serialize(block) == <<block.height, IF block.valid THEN 0 ELSE 1>>

BlockStruct(data) ==
    [hash                |-> HeaderHash(data[1], data[2]),
     previous_block_hash |-> HeaderHash(data[1] - 1, 0),
     valid               |-> data[2] = 0,
     height              |-> data[1]]

\* Transaction bytes.  A well-formed transaction is <<number, value_balance>>.
TxBytes == {<<n, vb>> : n \in 1..NumTxs, vb \in -1..1} \cup {<<>>}

\* Tx::read(&transaction.bytes[..])
TxReads(bytes) == Len(bytes) = 2

\* tx.value_balance.is_negative()
IsNegative(tx) == tx[2] < 0

\* The transactions a block confirms: the ones numbered like its height.
BlockTransactions(block) == {tx \in TxBytes : TxReads(tx) /\ tx[1] = block.height}

\* The storage holding the canon chain up to height h.
ChainOfHeight(h) == SubSeq([i \in 1..(h + 1) |-> HeaderHash(i - 1, 0)], 1, h + 1)

-----------------------------------------------------------------------------
(* Storage accessors (the storage lock is taken and released inside each) *)

\* storage.block_hash_exists(hash)
block_hash_exists(storage, hash) == \E i \in 1..Len(storage) : storage[i] = hash

\* storage.get_current_block_height()
get_current_block_height(storage) == Len(storage) - 1

\* storage.get_block_number(hash): Ok(height) or Err
get_block_number(storage, hash) ==
    {i - 1 : i \in {j \in 1..Len(storage) : storage[j] = hash}}

\* storage.get_block_hash(block_num): Ok(hash) or Err
get_block_hash(storage, block_num) ==
    IF block_num + 1 \in 1..Len(storage) THEN Some(storage[block_num + 1]) ELSE None

\* storage.get_latest_shared_hash(locator): the first locator hash the storage
\* recognizes, Err when it recognizes none.
RECURSIVE get_latest_shared_hash(_, _)
get_latest_shared_hash(storage, locator) ==
    IF locator = <<>> THEN None
    ELSE IF block_hash_exists(storage, Head(locator)) THEN Some(Head(locator))
    ELSE get_latest_shared_hash(storage, Tail(locator))

\* storage.get_block_locator_hashes(): the stored hashes from the tip back to
\* the genesis block, most recent first.
get_block_locator_hashes(storage) ==
    [i \in 1..Len(storage) |-> storage[Len(storage) - i + 1]]

\* storage.get_block(hash): Ok(block) or Err when the hash is not stored
get_block(storage, hash) ==
    IF block_hash_exists(storage, hash)
    THEN Some(BlockStruct(<<hash \div 2, hash % 2>>)) ELSE None

\* The storage of the sync node of the two-node exchange: the canon chain up to
\* height MaxHeight.  Nothing writes it during the exchange.
SyncNodeStorage == ChainOfHeight(MaxHeight)

\* self.environment.storage() of the node that runs task t.  The handler
\* invocations of the sync node are the tasks numbered below zero.
StorageOf(t) == IF t < 0 THEN SyncNodeStorage ELSE chain

-----------------------------------------------------------------------------
(* Requests handed to the outbound handler *)

Request(kind, to, payload) == [kind |-> kind, to |-> to, payload |-> payload]


NoLoc ==
    [is_new_block       |-> FALSE,
     insertion          |-> "none",
     latest_shared_hash |-> None,
     current_height     |-> 0,
     height             |-> None,
     max_height         |-> 0,
     block_hashes       |-> <<>>,
     next_index         |-> 0,
     \* history of the invocation
     exists_at_check    |-> FALSE,   \* block_hash_exists answered true
     validations        |-> 0,       \* calls of receive_block
     exists_at_receive  |-> FALSE,   \* the block was stored when receive_block was called
     verified           |-> "none",  \* what verify_transaction returned
     removed            |-> {},      \* the pooled transactions receive_block confirmed
     failed_lookup      |-> "none",  \* the storage lookup that returned Err
     parsed             |-> 0,       \* batch entries that Tx::read parsed
     insertions         |-> <<>>,    \* what memory_pool.insert returned for each of them
     transactions       |-> <<>>,    \* the serialized transactions of the MemoryPool reply
     block              |-> None,    \* what storage.get_block returned
     locks              |-> <<>>,    \* the lock guards the task holds, oldest first
     section            |-> "none",  \* the statement or block the guards belong to
     acquired           |-> 0,       \* lock acquisitions of the invocation
     snapshot           |-> {},      \* the pool when the handler read it
     unserializable     |-> {},      \* the pooled transactions whose to_bytes returned Err
     fanouts            |-> 0]       \* calls of propagate_block / propagate_transaction

Init ==
    /\ chain \in {ChainOfHeight(h) : h \in 0..MaxInitHeight}
    /\ pool = {}
    /\ pc = [t \in Tasks |-> "idle"]
    /\ call = [t \in Tasks |-> NoCall]
    /\ loc = [t \in Tasks |-> NoLoc]
    /\ sent = [t \in Tasks |-> <<>>]
    /\ ret = [t \in Tasks |-> "none"]

\* A handler is invoked on task t.  Tasks are numbered in the order of their
\* invocation: task t is the t-th handler invocation of the behaviour.
Invoke(t, op, remote, data, peers, first) ==
    /\ pc[t] = "idle"
    /\ \A u \in 1..(t - 1) : pc[u] # "idle"
    /\ pc' = [pc EXCEPT ![t] = first]
    /\ call' = [call EXCEPT ![t] = [callee |-> op, remote |-> remote, data |-> data, peers |-> peers]]
    /\ UNCHANGED <<chain, pool, loc, sent, ret>>

\* The handler of task t returns r.
Return(t, r) ==
    /\ pc' = [pc EXCEPT ![t] = "done"]
    /\ ret' = [ret EXCEPT ![t] = r]

-----------------------------------------------------------------------------
(* Relay engine *)

\* The sends of the loop of propagate_block / propagate_transaction when the
\* HashMap yields its keys in the order keys.
RECURSIVE FanOut(_, _, _, _)
FanOut(kind, bytes, originator, keys) ==
    IF keys = <<>> THEN <<>>
    ELSE IF Head(keys) # originator /\ Head(keys) # local_address
         THEN <<Request(kind, Head(keys), bytes)>> \o FanOut(kind, bytes, originator, Tail(keys))
         ELSE FanOut(kind, bytes, originator, Tail(keys))

\* Faulty variant of propagate_block: the loop does not skip the local address.
propagate_block_NoLocalCheck(block_bytes, block_miner, keys) ==
    LET NotMiner(a) == a # block_miner
        to == SelectSeq(keys, NotMiner)
    IN [i \in 1..Len(to) |-> Request("Block", to[i], block_bytes)]

propagate_block(block_bytes, block_miner, keys) ==
    FanOut("Block", block_bytes, block_miner, keys)

propagate_transaction(transaction_bytes, transaction_sender, keys) ==
    FanOut("Transaction", transaction_bytes, transaction_sender, keys)

\* A caller (the miner, the RPC) invokes propagate_block directly.
CallPropagateBlock(t, block_bytes, block_miner, connected_peers) ==
    Invoke(t, "propagate_block", block_miner, block_bytes, Some(connected_peers), "pb_loop")

PropagateBlock(t) ==
    /\ pc[t] = "pb_loop"
    /\ \E keys \in Orders(Unwrap(call[t].peers)) :
         sent' = [sent EXCEPT ![t] = @ \o propagate_block(call[t].data, call[t].remote, keys)]
    /\ loc' = [loc EXCEPT ![t].fanouts = @ + 1]
    /\ Return(t, "ok")
    /\ UNCHANGED <<chain, pool, call>>

CallPropagateTransaction(t, transaction_bytes, transaction_sender, connected_peers) ==
    Invoke(t, "propagate_transaction", transaction_sender, transaction_bytes,
           Some(connected_peers), "pt_loop")

PropagateTransaction(t) ==
    /\ pc[t] = "pt_loop"
    /\ \E keys \in Orders(Unwrap(call[t].peers)) :
         sent' = [sent EXCEPT ![t] = @ \o propagate_transaction(call[t].data, call[t].remote, keys)]
    /\ loc' = [loc EXCEPT ![t].fanouts = @ + 1]
    /\ Return(t, "ok")
    /\ UNCHANGED <<chain, pool, call>>

-----------------------------------------------------------------------------
(* Consensus engine and pool, as the handlers see them *)

\* consensus.receive_block(parameters, storage, pool, block) on a block that is
\* not stored yet: Ok exactly when the block passes validation, that is, it is
\* the accepted variant and extends the current tip.
receive_block_accepts(block) ==
    /\ block.valid
    /\ block.previous_block_hash = chain[Len(chain)]

\* consensus.verify_transaction(parameters, tx, storage): Ok(true), Ok(false) or Err
VerifyOutcomes == {"true", "false", "err"}

\* memory_pool.insert(storage, entry): Ok(Some(txid)) for a new entry, Ok(None)
\* for one already pooled, or Err
InsertOutcomes(tx) == (IF tx \in pool THEN {"dup"} ELSE {"some"}) \cup {"err"}

-----------------------------------------------------------------------------
(* Ingestion handlers: received_block *)

CallReceivedBlock(t, remote_address, data, connected_peers) ==
    Invoke(t, "received_block", remote_address, data, connected_peers, "rb_check")

\* Faulty variant of ReceivedBlockCheck: no existence check.
ReceivedBlockCheck_NoDedup(t) ==
    /\ pc[t] = "rb_check"
    /\ IF ~Deserializes(call[t].data)
       THEN /\ Return(t, "err")
            /\ UNCHANGED loc
       ELSE /\ pc' = [pc EXCEPT ![t] = "rb_receive"]
            /\ UNCHANGED <<loc, ret>>
    /\ UNCHANGED <<chain, pool, call, sent>>

\* Faulty variant of ReceivedBlockCheck: an undecodable envelope is dropped
\* silently.
ReceivedBlockCheck_SwallowDecodeErr(t) ==
    /\ pc[t] = "rb_check"
    /\ IF ~Deserializes(call[t].data)
       THEN /\ Return(t, "ok")
            /\ UNCHANGED loc
       ELSE IF block_hash_exists(StorageOf(t), BlockStruct(call[t].data).hash)
       THEN /\ Return(t, "ok")
            /\ loc' = [loc EXCEPT ![t].exists_at_check = TRUE]
       ELSE /\ pc' = [pc EXCEPT ![t] = "rb_receive"]
            /\ UNCHANGED <<loc, ret>>
    /\ UNCHANGED <<chain, pool, call, sent>>

\* Lines 175-188: deserialize, then the existence check under a storage read lock.
ReceivedBlockCheck(t) ==
    /\ pc[t] = "rb_check"
    /\ IF ~Deserializes(call[t].data)
       THEN /\ Return(t, "err")
            /\ UNCHANGED loc
       ELSE IF block_hash_exists(StorageOf(t), BlockStruct(call[t].data).hash)
       THEN /\ Return(t, "ok")
            /\ loc' = [loc EXCEPT ![t].exists_at_check = TRUE]
       ELSE /\ pc' = [pc EXCEPT ![t] = "rb_receive"]
            /\ UNCHANGED <<loc, ret>>
    /\ UNCHANGED <<chain, pool, call, sent>>

\* Lines 189-198: receive_block under a fresh storage read lock and the pool lock.
ReceivedBlockReceive(t) ==
    LET block == BlockStruct(call[t].data)
        stored == block_hash_exists(StorageOf(t), block.hash)
    IN /\ pc[t] = "rb_receive"
       /\ \E is_ok \in BOOLEAN :
            /\ stored \/ (is_ok <=> receive_block_accepts(block))
            /\ chain' = IF is_ok /\ ~stored THEN Append(chain, block.hash) ELSE chain
            /\ pool' = IF is_ok /\ ~stored THEN pool \ BlockTransactions(block) ELSE pool
            /\ loc' = [loc EXCEPT ![t].is_new_block = is_ok,
                                  ![t].validations = @ + 1,
                                  ![t].exists_at_receive = stored,
                                  ![t].removed = pool \ pool']
       /\ pc' = [pc EXCEPT ![t] = "rb_relay"]
       /\ UNCHANGED <<call, sent, ret>>

\* Faulty variant of ReceivedBlockRelay: the result of receive_block is ignored.
ReceivedBlockRelay_IgnoreResult(t) ==
    /\ pc[t] = "rb_relay"
    /\ IF IsSome(call[t].peers)
       THEN /\ \E keys \in Orders(Unwrap(call[t].peers)) :
                 sent' = [sent EXCEPT ![t] = @ \o propagate_block(call[t].data, call[t].remote, keys)]
            /\ loc' = [loc EXCEPT ![t].fanouts = @ + 1]
       ELSE UNCHANGED <<sent, loc>>
    /\ Return(t, "ok")
    /\ UNCHANGED <<chain, pool, call>>

\* Lines 200-220: relay the block when it is new and a peer directory was given.
ReceivedBlockRelay(t) ==
    /\ pc[t] = "rb_relay"
    /\ IF IsSome(call[t].peers) /\ loc[t].is_new_block
       THEN /\ \E keys \in Orders(Unwrap(call[t].peers)) :
                 sent' = [sent EXCEPT ![t] = @ \o propagate_block(call[t].data, call[t].remote, keys)]
            /\ loc' = [loc EXCEPT ![t].fanouts = @ + 1]
       ELSE UNCHANGED <<sent, loc>>
    /\ Return(t, "ok")
    /\ UNCHANGED <<chain, pool, call>>

-----------------------------------------------------------------------------
(* Ingestion handlers: received_transaction *)

CallReceivedTransaction(t, source, bytes, connected_peers) ==
    Invoke(t, "received_transaction", source, bytes, Some(connected_peers), "rt_verify")

\* Faulty variant of ReceivedTransactionVerify: no value balance check.
ReceivedTransactionVerify_NoBalanceCheck(t) ==
    /\ pc[t] = "rt_verify"
    /\ IF ~TxReads(call[t].data)
       THEN /\ Return(t, "ok")
            /\ UNCHANGED loc
       ELSE \E verdict \in VerifyOutcomes :
            /\ loc' = [loc EXCEPT ![t].verified = verdict]
            /\ IF verdict = "err" THEN Return(t, "err")
               ELSE IF verdict = "false" THEN Return(t, "ok")
               ELSE /\ pc' = [pc EXCEPT ![t] = "rt_insert"]
                    /\ UNCHANGED ret
    /\ UNCHANGED <<chain, pool, call, sent>>

\* Faulty variant of ReceivedTransactionVerify: a parse failure is returned to
\* the caller.
ReceivedTransactionVerify_ParseErr(t) ==
    /\ pc[t] = "rt_verify"
    /\ IF ~TxReads(call[t].data)
       THEN /\ Return(t, "err")
            /\ UNCHANGED loc
       ELSE \E verdict \in VerifyOutcomes :
            /\ loc' = [loc EXCEPT ![t].verified = verdict]
            /\ IF verdict = "err" THEN Return(t, "err")
               ELSE IF verdict = "false" THEN Return(t, "ok")
               ELSE IF IsNegative(call[t].data) THEN Return(t, "ok")
               ELSE /\ pc' = [pc EXCEPT ![t] = "rt_insert"]
                    /\ UNCHANGED ret
    /\ UNCHANGED <<chain, pool, call, sent>>

\* Lines 133-146: parse, verify against the storage, reject by value balance.
ReceivedTransactionVerify(t) ==
    /\ pc[t] = "rt_verify"
    /\ IF ~TxReads(call[t].data)
       THEN /\ Return(t, "ok")
            /\ UNCHANGED loc
       ELSE \E verdict \in VerifyOutcomes :
            /\ loc' = [loc EXCEPT ![t].verified = verdict]
            /\ IF verdict = "err" THEN Return(t, "err")
               ELSE IF verdict = "false" THEN Return(t, "ok")
               ELSE IF IsNegative(call[t].data) THEN Return(t, "ok")
               ELSE /\ pc' = [pc EXCEPT ![t] = "rt_insert"]
                    /\ UNCHANGED ret
    /\ UNCHANGED <<chain, pool, call, sent>>

\* Faulty variant of ReceivedTransactionInsert: an Err of the pool is returned
\* to the caller.
ReceivedTransactionInsert_ErrOnFailure(t) ==
    /\ pc[t] = "rt_insert"
    /\ \E insertion \in InsertOutcomes(call[t].data) :
         /\ loc' = [loc EXCEPT ![t].insertion = insertion]
         /\ pool' = IF insertion = "some" THEN pool \cup {call[t].data} ELSE pool
         /\ IF insertion = "err"
            THEN Return(t, "err")
            ELSE /\ pc' = [pc EXCEPT ![t] = "rt_relay"]
                 /\ UNCHANGED ret
    /\ UNCHANGED <<chain, call, sent>>

\* Lines 148-153: the insertion under the pool lock and a storage read lock.
ReceivedTransactionInsert(t) ==
    /\ pc[t] = "rt_insert"
    /\ \E insertion \in InsertOutcomes(call[t].data) :
         /\ loc' = [loc EXCEPT ![t].insertion = insertion]
         /\ pool' = IF insertion = "some" THEN pool \cup {call[t].data} ELSE pool
    /\ pc' = [pc EXCEPT ![t] = "rt_relay"]
    /\ UNCHANGED <<chain, call, sent, ret>>

\* Faulty variant of ReceivedTransactionRelay: relays whenever the insertion is Ok.
ReceivedTransactionRelay_AnyOk(t) ==
    /\ pc[t] = "rt_relay"
    /\ IF loc[t].insertion \in {"some", "dup"}
       THEN /\ \E keys \in Orders(Unwrap(call[t].peers)) :
                 sent' = [sent EXCEPT ![t] =
                            @ \o propagate_transaction(call[t].data, call[t].remote, keys)]
            /\ loc' = [loc EXCEPT ![t].fanouts = @ + 1]
       ELSE UNCHANGED <<sent, loc>>
    /\ Return(t, "ok")
    /\ UNCHANGED <<chain, pool, call>>

\* Lines 155-164: relay the transaction when the pool reported it new.
ReceivedTransactionRelay(t) ==
    /\ pc[t] = "rt_relay"
    /\ IF loc[t].insertion = "some"
       THEN /\ \E keys \in Orders(Unwrap(call[t].peers)) :
                 sent' = [sent EXCEPT ![t] =
                            @ \o propagate_transaction(call[t].data, call[t].remote, keys)]
            /\ loc' = [loc EXCEPT ![t].fanouts = @ + 1]
       ELSE UNCHANGED <<sent, loc>>
    /\ Return(t, "ok")
    /\ UNCHANGED <<chain, pool, call>>

-----------------------------------------------------------------------------
(* Ingestion handlers: received_memory_pool *)

\* memory_pool.insert(storage, entry) on the pool p; fault: the pool returns Err.
InsertInto(p, tx, fault) == IF fault THEN "err" ELSE IF tx \in p THEN "dup" ELSE "some"

\* Lines 270-283: the loop over the batch, run on the pool p.  faults[i] says
\* whether the insertion of the i-th entry returns Err.  The result is the pool
\* after the loop, the number of entries parsed, what each insertion returned
\* and what the handler returns.
RECURSIVE ReceivedMemoryPoolLoop(_, _, _)
ReceivedMemoryPoolLoop(transactions, p, faults) ==
    IF transactions = <<>>
    THEN [pool |-> p, parsed |-> 0, insertions |-> <<>>, result |-> "ok"]
    ELSE IF ~TxReads(Head(transactions))
    THEN [pool |-> p, parsed |-> 0, insertions |-> <<>>, result |-> "err"]
    ELSE LET insertion == InsertInto(p, Head(transactions), Head(faults))
             rest == ReceivedMemoryPoolLoop(
                         Tail(transactions),
                         IF insertion = "some" THEN p \cup {Head(transactions)} ELSE p,
                         Tail(faults))
         IN [rest EXCEPT !.parsed = @ + 1, !.insertions = <<insertion>> \o @]

CallReceivedMemoryPool(t, transactions) ==
    Invoke(t, "received_memory_pool", 0, transactions, None, "mp_loop")

\* Faulty variant of ReceivedMemoryPool: a parse failure rolls the batch back.
ReceivedMemoryPool_Rollback(t) ==
    /\ pc[t] = "mp_loop"
    /\ \E faults \in [1..Len(call[t].data) -> BOOLEAN] :
         LET run == ReceivedMemoryPoolLoop(call[t].data, pool, faults)
         IN /\ pool' = IF run.result = "err" THEN pool ELSE run.pool
            /\ loc' = [loc EXCEPT ![t].parsed = run.parsed, ![t].insertions = run.insertions]
            /\ Return(t, run.result)
    /\ UNCHANGED <<chain, call, sent>>

\* Lines 267-286: the handler is synchronous and holds the pool lock from its
\* first line to its return, so the whole batch is one step.
ReceivedMemoryPool(t) ==
    /\ pc[t] = "mp_loop"
    /\ \E faults \in [1..Len(call[t].data) -> BOOLEAN] :
         LET run == ReceivedMemoryPoolLoop(call[t].data, pool, faults)
         IN /\ pool' = run.pool
            /\ loc' = [loc EXCEPT ![t].parsed = run.parsed, ![t].insertions = run.insertions]
            /\ Return(t, run.result)
    /\ UNCHANGED <<chain, call, sent>>

-----------------------------------------------------------------------------
(* Ingestion handlers: received_get_memory_pool *)

\* to_bytes![entry.transaction] when it is Ok: a pooled transaction is known by
\* the bytes it was parsed from.
to_bytes(tx) == <<tx[1], tx[2]>>

\* Lines 244-253: the serialized transactions, in the order values yields the
\* entries, without the entries whose to_bytes returned Err.
SerializeAll(values, failed) ==
    LET Serializes(tx) == tx \notin failed
        kept == SelectSeq(values, Serializes)
    IN [i \in 1..Len(kept) |-> to_bytes(kept[i])]

CallReceivedGetMemoryPool(t, remote_address) ==
    Invoke(t, "received_get_memory_pool", remote_address, <<>>, None, "gmp_snapshot")

\* Lines 243-254: the pool is read under the pool lock, released at line 254.
GetMemoryPoolSnapshot(t) ==
    /\ pc[t] = "gmp_snapshot"
    /\ \E values \in Orders(pool), failed \in SUBSET pool :
         loc' = [loc EXCEPT ![t].transactions = SerializeAll(values, failed),
                            ![t].snapshot = pool,
                            ![t].unserializable = failed]
    /\ pc' = [pc EXCEPT ![t] = "gmp_reply"]
    /\ UNCHANGED <<chain, pool, call, sent, ret>>

\* Faulty variant of GetMemoryPoolReply: an empty batch is sent too.
GetMemoryPoolReply_SendEmpty(t) ==
    /\ pc[t] = "gmp_reply"
    /\ sent' = [sent EXCEPT ![t] =
                  Append(@, Request("MemoryPool", call[t].remote, loc[t].transactions))]
    /\ Return(t, "ok")
    /\ UNCHANGED <<chain, pool, call, loc>>

\* Lines 256-263: the MemoryPool reply, when there is something to send.
GetMemoryPoolReply(t) ==
    /\ pc[t] = "gmp_reply"
    /\ sent' = [sent EXCEPT ![t] =
                  IF loc[t].transactions # <<>>
                  THEN Append(@, Request("MemoryPool", call[t].remote, loc[t].transactions))
                  ELSE @]
    /\ Return(t, "ok")
    /\ UNCHANGED <<chain, pool, call, loc>>

-----------------------------------------------------------------------------
(* Sync negotiator: update *)

\* update(sync_node) on a node whose environment.is_bootnode() is is_bootnode.
CallUpdate(t, sync_node, is_bootnode) ==
    Invoke(t, "update", 0, <<is_bootnode>>, sync_node, "up_locator")

\* Lines 53-56: a bootnode returns at once; any other node reads its block
\* locator hashes under a storage read lock (Ok or Err).
UpdateLocator(t) ==
    /\ pc[t] = "up_locator"
    /\ IF call[t].data[1]
       THEN /\ Return(t, "ok")
            /\ UNCHANGED loc
       ELSE \E fault \in BOOLEAN :
            /\ loc' = [loc EXCEPT ![t].block_hashes =
                                      IF fault THEN <<>> ELSE get_block_locator_hashes(StorageOf(t)),
                                  ![t].failed_lookup =
                                      IF fault THEN "get_block_locator_hashes" ELSE @]
            /\ pc' = [pc EXCEPT ![t] = "up_send"]
            /\ UNCHANGED ret
    /\ UNCHANGED <<chain, pool, call, sent>>

\* Faulty variant of UpdateSend: the request goes out without the locator hashes
\* when the storage returned Err.
UpdateSend_OnLocatorErr(t) ==
    /\ pc[t] = "up_send"
    /\ sent' = [sent EXCEPT ![t] =
                  IF IsSome(call[t].peers)
                  THEN Append(@, Request("GetSync", Unwrap(call[t].peers), loc[t].block_hashes))
                  ELSE @]
    /\ Return(t, "ok")
    /\ UNCHANGED <<chain, pool, call, loc>>

\* Lines 56-67: the GetSync request, when a sync node is known and the locator
\* hashes were read.
UpdateSend(t) ==
    /\ pc[t] = "up_send"
    /\ sent' = [sent EXCEPT ![t] =
                  IF IsSome(call[t].peers) /\ loc[t].failed_lookup # "get_block_locator_hashes"
                  THEN Append(@, Request("GetSync", Unwrap(call[t].peers), loc[t].block_hashes))
                  ELSE @]
    /\ Return(t, "ok")
    /\ UNCHANGED <<chain, pool, call, loc>>

-----------------------------------------------------------------------------
(* Sync negotiator: received_get_block *)

CallReceivedGetBlock(t, remote_address, block_hash) ==
    Invoke(t, "received_get_block", remote_address, <<block_hash>>, None, "gb_lookup")

\* Faulty variant of GetBlockLookup: a lookup miss is returned as an error.
GetBlockLookup_ErrOnMiss(t) ==
    /\ pc[t] = "gb_lookup"
    /\ loc' = [loc EXCEPT ![t].block = get_block(StorageOf(t), call[t].data[1])]
    /\ IF IsSome(get_block(StorageOf(t), call[t].data[1]))
       THEN /\ pc' = [pc EXCEPT ![t] = "gb_reply"]
            /\ UNCHANGED ret
       ELSE Return(t, "err")
    /\ UNCHANGED <<chain, pool, call, sent>>

\* Lines 229-231 and 237: the lookup under a storage read lock; a miss returns Ok.
GetBlockLookup(t) ==
    /\ pc[t] = "gb_lookup"
    /\ loc' = [loc EXCEPT ![t].block = get_block(StorageOf(t), call[t].data[1])]
    /\ IF IsSome(get_block(StorageOf(t), call[t].data[1]))
       THEN /\ pc' = [pc EXCEPT ![t] = "gb_reply"]
            /\ UNCHANGED ret
       ELSE Return(t, "ok")
    /\ UNCHANGED <<chain, pool, call, sent>>

\* Lines 232-237: serialize the block (an Err is returned to the caller) and
\* send the SyncBlock reply.
GetBlockReply(t) ==
    /\ pc[t] = "gb_reply"
    /\ \E fault \in BOOLEAN :
         IF fault
         THEN /\ loc' = [loc EXCEPT ![t].failed_lookup = "serialize"]
              /\ Return(t, "err")
              /\ UNCHANGED sent
         ELSE /\ sent' = [sent EXCEPT ![t] =
                            Append(@, Request("SyncBlock", call[t].remote,
                                              serialize(Unwrap(loc[t].block))))]
              /\ Return(t, "ok")
              /\ UNCHANGED loc
    /\ UNCHANGED <<chain, pool, call>>

-----------------------------------------------------------------------------
(* Sync negotiator: received_get_sync *)

\* What storage.get_latest_shared_hash(locator) can return: the first locator
\* hash the storage recognizes, or Err; when it recognizes none, Err or the
\* genesis hash.
SharedHashOutcomes(storage, locator) ==
    IF IsSome(get_latest_shared_hash(storage, locator))
    THEN {get_latest_shared_hash(storage, locator), None}
    ELSE {None, Some(storage[1])}

\* Faulty variant of MaxHeightOf: the reply range is not capped.
MaxHeightOf_Uncapped(height, current_height) == current_height

\* Lines 302-308: the last height of the reply.
MaxHeightOf(height, current_height) ==
    IF height + SyncBatch < current_height THEN height + SyncBatch ELSE current_height

\* Faulty variant of BlockHashLookups: the loop starts one height too low.
BlockHashLookups_OffByOne(storage, first, last) ==
    [i \in 1..(last - first + 1) |-> get_block_hash(storage, first + i - 2)]

\* Lines 310-314: the lookups of the loop, one per height of first..=last.
BlockHashLookups(storage, first, last) ==
    [i \in 1..(last - first + 1) |-> get_block_hash(storage, first + i - 1)]

CallReceivedGetSync(t, remote_address, block_locator_hashes) ==
    Invoke(t, "received_get_sync", remote_address, block_locator_hashes, None, "gs_shared")

\* Line 297: the latest shared hash; an Err is returned to the caller.
GetSyncShared(t) ==
    /\ pc[t] = "gs_shared"
    /\ \E res \in SharedHashOutcomes(StorageOf(t), call[t].data) :
         IF res = None
         THEN /\ loc' = [loc EXCEPT ![t].failed_lookup = "get_latest_shared_hash"]
              /\ Return(t, "err")
         ELSE /\ loc' = [loc EXCEPT ![t].latest_shared_hash = res]
              /\ pc' = [pc EXCEPT ![t] = "gs_height"]
              /\ UNCHANGED ret
    /\ UNCHANGED <<chain, pool, call, sent>>

\* Line 298: the tip height, read under a second storage read lock.
GetSyncHeight(t) ==
    /\ pc[t] = "gs_height"
    /\ loc' = [loc EXCEPT ![t].current_height = get_current_block_height(StorageOf(t))]
    /\ pc' = [pc EXCEPT ![t] = "gs_number"]
    /\ UNCHANGED <<chain, pool, call, sent, ret>>

\* Lines 300-308 and 318-323: the height of the shared hash and the reply range.
GetSyncNumber(t) ==
    /\ pc[t] = "gs_number"
    /\ \E res \in {get_block_number(StorageOf(t), Unwrap(loc[t].latest_shared_hash)), None} :
         IF IsSome(res) /\ Unwrap(res) < loc[t].current_height
         THEN /\ loc' = [loc EXCEPT ![t].height = res,
                                    ![t].max_height = MaxHeightOf(Unwrap(res), loc[t].current_height)]
              /\ pc' = [pc EXCEPT ![t] = "gs_hashes"]
         ELSE /\ loc' = [loc EXCEPT ![t].height = res,
                                    ![t].failed_lookup =
                                        IF res = None THEN "get_block_number" ELSE @]
              /\ pc' = [pc EXCEPT ![t] = "gs_reply"]
    /\ UNCHANGED <<chain, pool, call, sent, ret>>

\* Lines 310-314: the hash of every height of the range; an Err is returned to
\* the caller.  The loop reads heights up to the tip height read before, whose
\* entries no insertion changes (ChainOnlyGrows), so it is one step.
GetSyncHashes(t) ==
    LET lookups == BlockHashLookups(StorageOf(t), Unwrap(loc[t].height) + 1, loc[t].max_height)
    IN /\ pc[t] = "gs_hashes"
       /\ \E fault \in BOOLEAN :
            IF fault \/ \E i \in 1..Len(lookups) : lookups[i] = None
            THEN /\ loc' = [loc EXCEPT ![t].failed_lookup = "get_block_hash"]
                 /\ Return(t, "err")
            ELSE /\ loc' = [loc EXCEPT ![t].block_hashes =
                                   [i \in 1..Len(lookups) |-> Unwrap(lookups[i])]]
                 /\ pc' = [pc EXCEPT ![t] = "gs_reply"]
                 /\ UNCHANGED ret
       /\ UNCHANGED <<chain, pool, call, sent>>

\* Faulty variant of GetSyncReply: an empty reply is not sent.
GetSyncReply_SkipEmpty(t) ==
    /\ pc[t] = "gs_reply"
    /\ sent' = [sent EXCEPT ![t] =
                  IF loc[t].block_hashes = <<>> THEN @
                  ELSE Append(@, Request("Sync", call[t].remote, loc[t].block_hashes))]
    /\ Return(t, "ok")
    /\ UNCHANGED <<chain, pool, call, loc>>

\* Lines 326-329: the Sync reply.
GetSyncReply(t) ==
    /\ pc[t] = "gs_reply"
    /\ sent' = [sent EXCEPT ![t] = Append(@, Request("Sync", call[t].remote, loc[t].block_hashes))]
    /\ Return(t, "ok")
    /\ UNCHANGED <<chain, pool, call, loc>>

-----------------------------------------------------------------------------
(* Sync negotiator: received_sync *)

CallReceivedSync(t, remote_address, block_hashes) ==
    Invoke(t, "received_sync", remote_address, block_hashes, None, "rs_loop")

\* Faulty variant of ReceivedSyncSend: a hash already requested is not requested again.
ReceivedSyncSend_Dedup(t) ==
    /\ pc[t] = "rs_loop"
    /\ IF loc[t].next_index < Len(call[t].data)
       THEN /\ sent' = [sent EXCEPT ![t] =
                          IF \E i \in 1..Len(@) : @[i].payload = <<call[t].data[loc[t].next_index + 1]>>
                          THEN @
                          ELSE Append(@, Request("GetBlock", call[t].remote,
                                                 <<call[t].data[loc[t].next_index + 1]>>))]
            /\ loc' = [loc EXCEPT ![t].next_index = @ + 1]
            /\ UNCHANGED <<pc, ret>>
       ELSE /\ Return(t, "ok")
            /\ UNCHANGED <<sent, loc>>
    /\ UNCHANGED <<chain, pool, call>>

\* Faulty variant of ReceivedSyncSend: only the first hash of the list is
\* requested.
ReceivedSyncSend_FirstOnly(t) ==
    /\ pc[t] = "rs_loop"
    /\ IF loc[t].next_index < Len(call[t].data) /\ loc[t].next_index = 0
       THEN /\ sent' = [sent EXCEPT ![t] =
                          Append(@, Request("GetBlock", call[t].remote,
                                            <<call[t].data[loc[t].next_index + 1]>>))]
            /\ loc' = [loc EXCEPT ![t].next_index = @ + 1]
            /\ UNCHANGED <<pc, ret>>
       ELSE /\ Return(t, "ok")
            /\ UNCHANGED <<sent, loc>>
    /\ UNCHANGED <<chain, pool, call>>

\* Lines 334-347: one GetBlock per hash; every send is a suspension point.
ReceivedSyncSend(t) ==
    /\ pc[t] = "rs_loop"
    /\ IF loc[t].next_index < Len(call[t].data)
       THEN /\ sent' = [sent EXCEPT ![t] =
                          Append(@, Request("GetBlock", call[t].remote,
                                            <<call[t].data[loc[t].next_index + 1]>>))]
            /\ loc' = [loc EXCEPT ![t].next_index = @ + 1]
            /\ UNCHANGED <<pc, ret>>
       ELSE /\ Return(t, "ok")
            /\ UNCHANGED <<sent, loc>>
    /\ UNCHANGED <<chain, pool, call>>

-----------------------------------------------------------------------------
(* The node: handler invocations running concurrently *)

OptPeerDirs == {None} \cup {Some(P) : P \in PeerDirs}

\* Sequences over S of length 0..n
SeqsUpTo(S, n) == UNION {[1..k -> S] : k \in 0..n}

\* The ingestion handlers, every interleaving.
Next ==
    \E t \in Tasks :
        \/ \E a \in Addrs, d \in BlockBytes, p \in OptPeerDirs : CallReceivedBlock(t, a, d, p)
        \/ ReceivedBlockCheck(t)
        \/ ReceivedBlockReceive(t)
        \/ ReceivedBlockRelay(t)
        \/ \E a \in Addrs, d \in TxBytes, p \in PeerDirs : CallReceivedTransaction(t, a, d, p)
        \/ ReceivedTransactionVerify(t)
        \/ ReceivedTransactionInsert(t)
        \/ ReceivedTransactionRelay(t)

Spec == Init /\ [][Next]_vars

\* received_block called again with the same envelope and the same peer
\* directory, each call after the one before returned.
Quiet == \A t \in Tasks : pc[t] \in {"idle", "done"}

SeqNext ==
    \E t \in Tasks :
        \/ /\ Quiet
           /\ t = 1
           /\ \E a \in Addrs, d \in BlockBytes, p \in OptPeerDirs : CallReceivedBlock(t, a, d, p)
        \/ /\ Quiet
           /\ t > 1
           /\ \E a \in Addrs : CallReceivedBlock(t, a, call[t - 1].data, call[t - 1].peers)
        \/ ReceivedBlockCheck(t)
        \/ ReceivedBlockReceive(t)
        \/ ReceivedBlockRelay(t)

SeqSpec == Init /\ [][SeqNext]_vars

\* One call of the relay engine on every input.
RelayPayloads == {<<>>, <<1, 0>>}

PropagateNext ==
    \/ \E d \in RelayPayloads, a \in Addrs, p \in PeerDirs : CallPropagateBlock(1, d, a, p)
    \/ PropagateBlock(1)
    \/ \E d \in RelayPayloads, a \in Addrs, p \in PeerDirs : CallPropagateTransaction(1, d, a, p)
    \/ PropagateTransaction(1)

PropagateSpec == Init /\ [][PropagateNext]_vars

\* received_sync entered on every hash list, then entered again with the same
\* list, each call after the one before returned.
SyncHashes == {HeaderHash(h, 0) : h \in 1..MaxHeight}

FetchNext ==
    \E t \in Tasks :
        \/ /\ Quiet
           /\ t = 1
           /\ \E a \in Addrs, l \in SeqsUpTo(SyncHashes, MaxHashes) : CallReceivedSync(t, a, l)
        \/ /\ Quiet
           /\ t > 1
           /\ \E a \in Addrs : CallReceivedSync(t, a, call[t - 1].data)
        \/ ReceivedSyncSend(t)

FetchSpec == Init /\ [][FetchNext]_vars

\* One received_get_sync on a long chain while blocks arrive from a peer, one
\* block at a time.
SyncTips == {10, 12, 5010}
LocatorHashes == {HeaderHash(10, 0), HeaderHash(10, 1)}

SyncInit ==
    /\ chain \in {ChainOfHeight(h) : h \in SyncTips}
    /\ pool = {}
    /\ pc = [t \in Tasks |-> "idle"]
    /\ call = [t \in Tasks |-> NoCall]
    /\ loc = [t \in Tasks |-> NoLoc]
    /\ sent = [t \in Tasks |-> <<>>]
    /\ ret = [t \in Tasks |-> "none"]

SyncNext ==
    \E t \in Tasks :
        \/ /\ \A u \in Tasks : call[u].callee # "received_get_sync"
           /\ \E a \in Addrs, l \in SeqsUpTo(LocatorHashes, MaxHashes) :
                CallReceivedGetSync(t, a, l)
        \/ GetSyncShared(t)
        \/ GetSyncHeight(t)
        \/ GetSyncNumber(t)
        \/ GetSyncHashes(t)
        \/ GetSyncReply(t)
        \/ /\ \A u \in Tasks : call[u].callee = "received_block" => pc[u] = "done"
           /\ CallReceivedBlock(t, NumAddrs, <<get_current_block_height(chain) + 1, 0>>, None)
        \/ ReceivedBlockCheck(t)
        \/ ReceivedBlockReceive(t)
        \/ ReceivedBlockRelay(t)

SyncSpec == SyncInit /\ [][SyncNext]_vars

-----------------------------------------------------------------------------
(* The two shared locks: environment.storage() is a read-write lock that the  *)
(* handlers only ever read-lock, environment.memory_pool() is a mutex.  The   *)
(* steps above run with their guards in hand; here every acquisition is a     *)
(* step of its own, which waits while the lock is not to be had.              *)

\* Faulty variant of Needs: the storage guard of received_get_sync lives on to
\* the end of the function, across the send.
Needs_GuardOutlivesBlock(t) ==
    CASE pc[t] = "rb_check" -> IF Deserializes(call[t].data) THEN <<"storage">> ELSE <<>>
      [] pc[t] = "rb_receive" -> <<"storage", "pool">>
      [] pc[t] = "rt_verify" -> IF TxReads(call[t].data) THEN <<"storage">> ELSE <<>>
      [] pc[t] = "rt_insert" -> <<"pool", "storage">>
      [] pc[t] = "mp_loop" ->
            IF call[t].data # <<>> /\ TxReads(call[t].data[1])
            THEN <<"pool", "storage">> ELSE <<"pool">>
      [] pc[t] = "gmp_snapshot" -> <<"pool">>
      [] pc[t] = "gb_lookup" -> <<"storage">>
      [] pc[t] = "up_locator" -> IF call[t].data[1] THEN <<>> ELSE <<"storage">>
      [] pc[t] = "gs_shared" -> <<"storage">>
      [] pc[t] = "gs_height" -> <<"storage", "storage">>
      [] pc[t] \in {"gs_number", "gs_hashes", "gs_reply"} -> <<"storage">>
      [] OTHER -> <<>>

\* The guards the code holds when it executes the step at pc[t], in the order
\* it acquires them: lines 186, 194-195, 138, 153, 268 and 277, 246, 229, 54,
\* 295 and 298.  The sends (lines 59, 92, 115, 234, 259, 327, 342) are outside
\* every guard's scope.
Needs(t) ==
    CASE pc[t] = "rb_check" -> IF Deserializes(call[t].data) THEN <<"storage">> ELSE <<>>
      [] pc[t] = "rb_receive" -> <<"storage", "pool">>
      [] pc[t] = "rt_verify" -> IF TxReads(call[t].data) THEN <<"storage">> ELSE <<>>
      [] pc[t] = "rt_insert" -> <<"pool", "storage">>
      [] pc[t] = "mp_loop" ->
            IF call[t].data # <<>> /\ TxReads(call[t].data[1])
            THEN <<"pool", "storage">> ELSE <<"pool">>
      [] pc[t] = "gmp_snapshot" -> <<"pool">>
      [] pc[t] = "gb_lookup" -> <<"storage">>
      [] pc[t] = "up_locator" -> IF call[t].data[1] THEN <<>> ELSE <<"storage">>
      [] pc[t] = "gs_shared" -> <<"storage">>
      [] pc[t] = "gs_height" -> <<"storage", "storage">>
      [] pc[t] \in {"gs_number", "gs_hashes"} -> <<"storage">>
      [] OTHER -> <<>>

\* The statement or block whose end drops the guards taken at pc[t]: the block
\* of lines 294-324 for received_get_sync, the statement itself elsewhere.
Section(t) ==
    IF pc[t] \in {"gs_shared", "gs_height", "gs_number", "gs_hashes"} THEN "gs" ELSE pc[t]

IsPrefix(a, b) == Len(a) <= Len(b) /\ SubSeq(b, 1, Len(a)) = a

Holds(t, lock) == \E i \in 1..Len(loc[t].locks) : loc[t].locks[i] = lock

\* The task holds exactly the guards of the step it is about to take.
Ready(t) ==
    /\ loc[t].locks = Needs(t)
    /\ loc[t].locks = <<>> \/ loc[t].section = Section(t)

\* Faulty variant of Acquire: the storage lock is exclusive, like the pool mutex.
Acquire_ExclusiveStorage(t) ==
    /\ pc[t] \notin {"idle", "done"}
    /\ Len(loc[t].locks) < Len(Needs(t))
    /\ IsPrefix(loc[t].locks, Needs(t))
    /\ loc[t].locks = <<>> \/ loc[t].section = Section(t)
    /\ \A u \in Tasks : ~Holds(u, Needs(t)[Len(loc[t].locks) + 1])
    /\ loc' = [loc EXCEPT ![t].locks = Append(@, Needs(t)[Len(@) + 1]),
                          ![t].section = Section(t),
                          ![t].acquired = @ + 1]
    /\ UNCHANGED <<chain, pool, pc, call, sent, ret>>

\* storage().read() or memory_pool().lock(): the next guard of the step.  The
\* mutex is granted when no other task holds it; a read lock is granted at once,
\* no handler being a writer.
Acquire(t) ==
    /\ pc[t] \notin {"idle", "done"}
    /\ Len(loc[t].locks) < Len(Needs(t))
    /\ IsPrefix(loc[t].locks, Needs(t))
    /\ loc[t].locks = <<>> \/ loc[t].section = Section(t)
    /\ Needs(t)[Len(loc[t].locks) + 1] = "pool" => \A u \in Tasks \ {t} : ~Holds(u, "pool")
    /\ loc' = [loc EXCEPT ![t].locks = Append(@, Needs(t)[Len(@) + 1]),
                          ![t].section = Section(t),
                          ![t].acquired = @ + 1]
    /\ UNCHANGED <<chain, pool, pc, call, sent, ret>>

\* A guard goes out of scope: the youngest guard that the step at pc[t] does
\* not run under is dropped.
Release(t) ==
    /\ loc[t].locks # <<>>
    /\ loc[t].section # Section(t) \/ ~IsPrefix(loc[t].locks, Needs(t))
    /\ loc' = [loc EXCEPT ![t].locks = SubSeq(@, 1, Len(@) - 1)]
    /\ UNCHANGED <<chain, pool, pc, call, sent, ret>>

\* The handlers a peer's messages and the sync timer start.
LockCalls(t) ==
    \/ \E d \in BlockBytes : CallReceivedBlock(t, NumAddrs, d, Some(Addrs))
    \/ \E d \in TxBytes : CallReceivedTransaction(t, NumAddrs, d, Addrs)
    \/ \E l \in SeqsUpTo(TxBytes, 1) : CallReceivedMemoryPool(t, l)
    \/ CallReceivedGetSync(t, NumAddrs, <<HeaderHash(0, 0)>>)
    \/ CallReceivedGetMemoryPool(t, NumAddrs)
    \/ CallReceivedGetBlock(t, NumAddrs, HeaderHash(1, 0))
    \/ CallUpdate(t, Some(NumAddrs), FALSE)

\* The step of task t's handler, once it holds the guards of the step.
Op(t) ==
    /\ Ready(t)
    /\ \/ ReceivedBlockCheck(t)
       \/ ReceivedBlockReceive(t)
       \/ ReceivedBlockRelay(t)
       \/ ReceivedTransactionVerify(t)
       \/ ReceivedTransactionInsert(t)
       \/ ReceivedTransactionRelay(t)
       \/ ReceivedMemoryPool(t)
       \/ GetSyncShared(t)
       \/ GetSyncHeight(t)
       \/ GetSyncNumber(t)
       \/ GetSyncHashes(t)
       \/ GetSyncReply(t)
       \/ GetMemoryPoolSnapshot(t)
       \/ GetMemoryPoolReply(t)
       \/ GetBlockLookup(t)
       \/ GetBlockReply(t)
       \/ UpdateLocator(t)
       \/ UpdateSend(t)

TaskStep(t) == Acquire(t) \/ Release(t) \/ Op(t)

LockNext == \E t \in Tasks : LockCalls(t) \/ TaskStep(t)

LockSpec == Init /\ [][LockNext]_vars

\* The runtime keeps running every task that can take a step.
LockFairSpec == LockSpec /\ \A t \in Tasks : WF_vars(TaskStep(t))

\* One handler invocation on every input, on a node whose storage and pool
\* hold anything they can hold.
ParsedTxs == {tx \in TxBytes : TxReads(tx)}

CallInit ==
    /\ chain \in {ChainOfHeight(h) : h \in 0..MaxInitHeight}
    /\ pool \in SUBSET ParsedTxs
    /\ pc = [t \in Tasks |-> "idle"]
    /\ call = [t \in Tasks |-> NoCall]
    /\ loc = [t \in Tasks |-> NoLoc]
    /\ sent = [t \in Tasks |-> <<>>]
    /\ ret = [t \in Tasks |-> "none"]

CallNext ==
    \/ \E a \in Addrs, d \in TxBytes, p \in PeerDirs : CallReceivedTransaction(1, a, d, p)
    \/ ReceivedTransactionVerify(1)
    \/ ReceivedTransactionInsert(1)
    \/ ReceivedTransactionRelay(1)
    \/ \E l \in SeqsUpTo(TxBytes, MaxBatch) : CallReceivedMemoryPool(1, l)
    \/ ReceivedMemoryPool(1)
    \/ \E a \in Addrs : CallReceivedGetMemoryPool(1, a)
    \/ GetMemoryPoolSnapshot(1)
    \/ GetMemoryPoolReply(1)
    \/ \E a \in Addrs, h \in 0..MaxHeight, v \in 0..1 : CallReceivedGetBlock(1, a, HeaderHash(h, v))
    \/ GetBlockLookup(1)
    \/ GetBlockReply(1)
    \/ \E a \in Addrs, d \in BlockBytes, p \in OptPeerDirs : CallReceivedBlock(1, a, d, p)
    \/ ReceivedBlockCheck(1)
    \/ ReceivedBlockReceive(1)
    \/ ReceivedBlockRelay(1)
    \/ \E n \in {None} \cup {Some(a) : a \in Addrs}, b \in BOOLEAN : CallUpdate(1, n, b)
    \/ UpdateLocator(1)
    \/ UpdateSend(1)

CallSpec == CallInit /\ [][CallNext]_vars

-----------------------------------------------------------------------------
(* Two nodes: this node fetches the blocks it misses from its sync node.  The *)
(* handler invocations of this node are the tasks 1, 2, ...; those of the     *)
(* sync node are the tasks -1, -2, ... and read SyncNodeStorage.  Each node   *)
(* handles the requests sent to it one at a time, in the order they were      *)
(* sent; the network may deliver a request again that it delivered before.    *)

\* Task 1 is update; every Sync and SyncBlock delivered is one more task.
RequesterTasks == 1..(1 + (1 + MaxDuplicates) * (1 + MaxHeight))

SyncNodeTasks == {-i : i \in 1..((1 + MaxDuplicates) * (1 + MaxHeight))}

ExchangeTasks == RequesterTasks \cup SyncNodeTasks

\* The tasks of the node whose tasks have the sign sgn.
TasksOf(sgn) == IF sgn < 0 THEN SyncNodeTasks ELSE RequesterTasks

\* Handler invocations of the node so far.
Invocations(sgn) == Cardinality({t \in TasksOf(sgn) : pc[t] # "idle"})

\* A handler of the node is running.
Busy(sgn) == \E t \in TasksOf(sgn) : pc[t] \notin {"idle", "done"}

\* The requests the first n invocations of the node handed to
\* outbound.broadcast, in order.  In this exchange they all go to the other
\* node: update sends to its sync node, the others to the sender of the
\* request they answer.
RECURSIVE Outbox(_, _)
Outbox(sgn, n) == IF n = 0 THEN <<>> ELSE Outbox(sgn, n - 1) \o sent[sgn * n]

\* The requests sent to the node so far.
Inbox(sgn) == Outbox(-sgn, Invocations(-sgn))

\* Requests delivered to the node so far: every invocation but update.
Deliveries(sgn) ==
    IF sgn < 0 THEN Invocations(sgn)
    ELSE IF Invocations(sgn) = 0 THEN 0 ELSE Invocations(sgn) - 1

\* The task that handles the i-th delivery to the node.
DeliveryTask(sgn, i) == IF sgn < 0 THEN -i ELSE i + 1

\* The request whose delivery started task t.
RequestOf(t) ==
    Request(CASE call[t].callee = "received_get_sync" -> "GetSync"
              [] call[t].callee = "received_sync" -> "Sync"
              [] call[t].callee = "received_get_block" -> "GetBlock"
              [] call[t].callee = "received_block" -> "SyncBlock"
              [] OTHER -> "none",
            IF t < 0 THEN NumAddrs ELSE local_address,
            call[t].data)

\* How many requests of the inbox the first n deliveries to the node have
\* delivered for the first time; the other deliveries were repetitions.
RECURSIVE FirstDeliveries(_, _, _)
FirstDeliveries(sgn, inbox, n) ==
    IF n = 0 THEN 0
    ELSE LET j == FirstDeliveries(sgn, inbox, n - 1)
         IN IF j < Len(inbox) /\ RequestOf(DeliveryTask(sgn, n)) = inbox[j + 1]
            THEN j + 1 ELSE j

\* Repeated deliveries so far, at both nodes.
Duplicates ==
    (Deliveries(1) - FirstDeliveries(1, Inbox(1), Deliveries(1)))
    + (Deliveries(-1) - FirstDeliveries(-1, Inbox(-1), Deliveries(-1)))

\* The inbound router: the handler of this file that a delivered request
\* starts.  A SyncBlock reply is handed to received_block without a peer
\* directory.
Dispatch(t, request, from) ==
    CASE request.kind = "GetSync" -> CallReceivedGetSync(t, from, request.payload)
      [] request.kind = "Sync" -> CallReceivedSync(t, from, request.payload)
      [] request.kind = "GetBlock" -> CallReceivedGetBlock(t, from, request.payload[1])
      [] request.kind = "SyncBlock" -> CallReceivedBlock(t, from, request.payload, None)
      [] OTHER -> FALSE

\* The network delivers a request to the node, which is not handling one: the
\* next request of the inbox, or again one it delivered before.
Deliver(sgn) ==
    LET inbox == Inbox(sgn)
        j == FirstDeliveries(sgn, inbox, Deliveries(sgn))
        t == DeliveryTask(sgn, Deliveries(sgn) + 1)
    IN /\ ~Busy(sgn)
       /\ t \in TasksOf(sgn)
       /\ \E i \in 1..Len(inbox) :
            /\ i <= j + 1
            /\ i <= j => Duplicates < MaxDuplicates
            /\ Dispatch(t, inbox[i], IF sgn < 0 THEN local_address ELSE NumAddrs)

\* This node starts short of its sync node's tip.
ExchangeInit ==
    /\ chain \in {ChainOfHeight(h) : h \in 0..Min(MaxInitHeight, MaxHeight - 1)}
    /\ pool = {}
    /\ pc = [t \in ExchangeTasks |-> "idle"]
    /\ call = [t \in ExchangeTasks |-> NoCall]
    /\ loc = [t \in ExchangeTasks |-> NoLoc]
    /\ sent = [t \in ExchangeTasks |-> <<>>]
    /\ ret = [t \in ExchangeTasks |-> "none"]

ExchangeNext ==
    \/ CallUpdate(1, Some(NumAddrs), FALSE)
    \/ Deliver(1)
    \/ Deliver(-1)
    \/ \E t \in ExchangeTasks :
         \/ UpdateLocator(t)
         \/ UpdateSend(t)
         \/ GetSyncShared(t)
         \/ GetSyncHeight(t)
         \/ GetSyncNumber(t)
         \/ GetSyncHashes(t)
         \/ GetSyncReply(t)
         \/ ReceivedSyncSend(t)
         \/ GetBlockLookup(t)
         \/ GetBlockReply(t)
         \/ ReceivedBlockCheck(t)
         \/ ReceivedBlockReceive(t)
         \/ ReceivedBlockRelay(t)

ExchangeSpec == ExchangeInit /\ [][ExchangeNext]_vars

\* Delivery is reliable and both nodes keep running their handlers.
ExchangeFairSpec == ExchangeSpec /\ WF_vars(ExchangeNext)

-----------------------------------------------------------------------------
(* Properties *)

\* The canon chain only grows: no step changes the hash stored at a height.
ChainOnlyGrows ==
    [][Len(chain') >= Len(chain) /\ SubSeq(chain', 1, Len(chain)) = chain]_vars

\* The log s holds exactly one request of the kind, carrying bytes, to every
\* address of targets, and nothing else.
ExactlyOnceTo(s, kind, bytes, targets) ==
    /\ Len(s) = Cardinality(targets)
    /\ \A i \in 1..Len(s) : s[i].kind = kind /\ s[i].payload = bytes /\ s[i].to \in targets
    /\ \A a \in targets : Cardinality({i \in 1..Len(s) : s[i].to = a}) = 1

RelayKind(op) == IF op = "propagate_block" THEN "Block" ELSE "Transaction"

\* C1: propagate_block and propagate_transaction send exactly once to every key
\* of the peer directory other than the originator and the local address, send
\* to nobody else, and return success.
C1_FanOutExcludesOriginatorAndSelf ==
    \A t \in Tasks :
        call[t].callee \in {"propagate_block", "propagate_transaction"} =>
            /\ pc[t] # "done" => sent[t] = <<>>
            /\ pc[t] = "done" =>
                 /\ ret[t] = "ok"
                 /\ ExactlyOnceTo(sent[t], RelayKind(call[t].callee), call[t].data,
                                  Unwrap(call[t].peers) \ {call[t].remote, local_address})

\* C1 witness: a fan-out over a directory that lists the originator and the
\* local address next to another peer.
C1_Witness ==
    \E t \in Tasks :
        /\ pc[t] = "done"
        /\ call[t].callee = "propagate_block"
        /\ call[t].remote # local_address
        /\ {call[t].remote, local_address} \subseteq Unwrap(call[t].peers)
        /\ Len(sent[t]) = 1

\* C2: no Sync reply carries more than 4000 hashes, whatever blocks are
\* inserted while the reply is computed.
C2_SyncReplyCapped ==
    \A t \in Tasks : \A i \in 1..Len(sent[t]) :
        sent[t][i].kind = "Sync" => Len(sent[t][i].payload) <= SyncBatch

\* C2 witness: a full reply to a requester more than 4000 blocks behind, sent
\* after a block arrived past the tip height the handler had read.
C2_Witness ==
    \E t \in Tasks :
        /\ pc[t] = "done"
        /\ call[t].callee = "received_get_sync"
        /\ Len(sent[t]) = 1
        /\ Len(sent[t][1].payload) = SyncBatch
        /\ Unwrap(loc[t].height) + SyncBatch < loc[t].current_height
        /\ get_current_block_height(chain) > loc[t].current_height

\* C3: when the shared hash resolves to height h and the tip height read is t,
\* the reply is the stored hashes of the heights h+1 .. min(t, h+4000), in
\* ascending order (empty when h >= t).
C3_SyncReplyRange ==
    \A t \in Tasks :
        (call[t].callee = "received_get_sync" /\ pc[t] = "done" /\ ret[t] = "ok"
            /\ IsSome(loc[t].height)) =>
            LET h == Unwrap(loc[t].height)
                last == Min(loc[t].current_height, h + SyncBatch)
            IN sent[t] = <<Request("Sync", call[t].remote,
                                   [i \in 1..(last - h) |-> chain[h + i + 1]])>>

\* C3 witness: shared height 10 = tip - 5000, a reply of exactly 4000 hashes
\* that starts with the hash of height 11.
C3_Witness ==
    \E t \in Tasks :
        /\ pc[t] = "done"
        /\ call[t].callee = "received_get_sync"
        /\ loc[t].height = Some(10)
        /\ loc[t].current_height = 5010
        /\ Len(sent[t]) = 1
        /\ Len(sent[t][1].payload) = 4000
        /\ sent[t][1].payload[1] = HeaderHash(11, 0)
        /\ sent[t][1].payload[4000] = HeaderHash(4010, 0)

\* C3, the other two cases of the claim: shared height 10 under tip 12, and
\* shared height 10 under tip 10.
C3_ReachedTwoHashes ==
    \E t \in Tasks :
        /\ pc[t] = "done"
        /\ loc[t].height = Some(10)
        /\ loc[t].current_height = 12
        /\ sent[t] = <<Request("Sync", call[t].remote, <<HeaderHash(11, 0), HeaderHash(12, 0)>>)>>

C3_ReachedCaughtUp ==
    \E t \in Tasks :
        /\ pc[t] = "done"
        /\ loc[t].height = Some(10)
        /\ loc[t].current_height = 10
        /\ sent[t] = <<Request("Sync", call[t].remote, <<>>)>>

\* C4 as claimed: every received_get_sync returns success having sent exactly
\* one Sync to remote_address.
C4_AlwaysOneSync ==
    \A t \in Tasks :
        (call[t].callee = "received_get_sync" /\ pc[t] = "done") =>
            /\ ret[t] = "ok"
            /\ Len(sent[t]) = 1
            /\ sent[t][1].kind = "Sync"
            /\ sent[t][1].to = call[t].remote

\* C4 amended: received_get_sync sends exactly one Sync to remote_address and
\* returns success unless get_latest_shared_hash or a get_block_hash lookup
\* returns Err; then it returns the error and sends nothing.  When the shared
\* hash does not resolve to a height the reply is sent with an empty list.
C4_OneSyncUnlessLookupErr ==
    \A t \in Tasks :
        call[t].callee = "received_get_sync" =>
            /\ pc[t] # "done" => sent[t] = <<>>
            /\ pc[t] = "done" =>
                 /\ ret[t] = "err" <=>
                        loc[t].failed_lookup \in {"get_latest_shared_hash", "get_block_hash"}
                 /\ ret[t] = "err" => sent[t] = <<>>
                 /\ ret[t] = "ok" =>
                        /\ Len(sent[t]) = 1
                        /\ sent[t][1].kind = "Sync"
                        /\ sent[t][1].to = call[t].remote
                 /\ loc[t].failed_lookup = "get_block_number" =>
                        /\ ret[t] = "ok"
                        /\ sent[t] = <<Request("Sync", call[t].remote, <<>>)>>

\* C4 witness: the shared hash is found but does not resolve to a height, and
\* the empty reply is sent.
C4_Witness ==
    \E t \in Tasks :
        /\ pc[t] = "done"
        /\ call[t].callee = "received_get_sync"
        /\ IsSome(loc[t].latest_shared_hash)
        /\ loc[t].failed_lookup = "get_block_number"
        /\ ret[t] = "ok"
        /\ sent[t] = <<Request("Sync", call[t].remote, <<>>)>>

\* C5 as claimed: receive_block is never called for a block whose hash is in
\* the storage at the moment of the call, so a stored block is never relayed.
C5_NeverRevalidated ==
    \A t \in Tasks :
        call[t].callee = "received_block" => ~loc[t].exists_at_receive

\* Two received_block calls are one call after the other with the same
\* envelope and the same peer directory.
SameCallTwice(t, u) ==
    /\ u = t + 1
    /\ pc[t] = "done" /\ pc[u] = "done"
    /\ call[t].callee = "received_block" /\ call[u].callee = "received_block"
    /\ call[t].data = call[u].data
    /\ call[t].peers = call[u].peers

\* C6 as claimed, for an envelope that decodes to a block not stored before the
\* first call: the two calls together invoke receive_block exactly once and
\* relay at most once, and the second call does nothing and returns success.
C6_ExactlyOneValidation ==
    \A t, u \in Tasks :
        (SameCallTwice(t, u) /\ Deserializes(call[t].data) /\ ~loc[t].exists_at_check) =>
            /\ loc[t].validations + loc[u].validations = 1
            /\ loc[t].fanouts + loc[u].fanouts <= 1
            /\ loc[u].validations = 0 /\ sent[u] = <<>> /\ ret[u] = "ok"

\* C6 amended: the two calls together relay at most once; when the first call's
\* receive_block succeeds the second call is a no-op that returns success and
\* receive_block ran exactly once; when the first call's receive_block fails the
\* second call invokes it again; when the block was stored before the first call
\* neither call invokes it; when the envelope does not decode both calls fail.
C6_IdempotentOnceStored ==
    \A t, u \in Tasks :
        SameCallTwice(t, u) =>
            /\ loc[t].fanouts + loc[u].fanouts <= 1
            /\ loc[t].is_new_block =>
                 /\ loc[t].validations = 1 /\ loc[u].validations = 0
                 /\ loc[u].exists_at_check /\ sent[u] = <<>> /\ ret[u] = "ok"
            /\ (loc[t].validations = 1 /\ ~loc[t].is_new_block) =>
                 /\ loc[u].validations = 1 /\ ~loc[u].is_new_block
                 /\ sent[t] = <<>> /\ sent[u] = <<>>
            /\ loc[t].exists_at_check =>
                 /\ loc[t].validations = 0 /\ loc[u].validations = 0
                 /\ sent[t] = <<>> /\ sent[u] = <<>>
            /\ ~Deserializes(call[t].data) =>
                 /\ ret[t] = "err" /\ ret[u] = "err"
                 /\ loc[t].validations = 0 /\ loc[u].validations = 0

\* C6 witness: a new block relayed by the first call and dropped by the second.
C6_Witness ==
    \E t, u \in Tasks :
        /\ SameCallTwice(t, u)
        /\ loc[t].is_new_block
        /\ Len(sent[t]) = 2
        /\ loc[u].exists_at_check

\* C7 as claimed: a transaction with a non-negative value balance is never
\* inserted into the pool and never relayed.
C7_NonNegativeNeverPooled ==
    \A t \in Tasks :
        (call[t].callee = "received_transaction" /\ TxReads(call[t].data)
            /\ ~IsNegative(call[t].data)) =>
            /\ loc[t].insertion # "some"
            /\ sent[t] = <<>>

\* C7 amended: a transaction with a negative value balance (the coinbase shape
\* the handler rejects) is never offered to the pool and never relayed,
\* whatever verify_transaction returns.
C7_NegativeNeverPooled ==
    \A t \in Tasks :
        (call[t].callee = "received_transaction" /\ TxReads(call[t].data)
            /\ IsNegative(call[t].data)) =>
            /\ loc[t].insertion = "none"
            /\ call[t].data \notin pool
            /\ loc[t].fanouts = 0
            /\ sent[t] = <<>>
            /\ pc[t] = "done" => ret[t] = (IF loc[t].verified = "err" THEN "err" ELSE "ok")

\* C7 witness: verify_transaction accepted a negative-balance transaction and
\* the handler returned.
C7_Witness ==
    \E t \in Tasks :
        /\ pc[t] = "done"
        /\ call[t].callee = "received_transaction"
        /\ TxReads(call[t].data) /\ IsNegative(call[t].data)
        /\ loc[t].verified = "true"
        /\ \E a \in Unwrap(call[t].peers) : a \notin {call[t].remote, local_address}

\* C8: a received_transaction relays exactly when the pool reported its entry
\* new, and then to the peer directory minus its source and the local address;
\* two invocations with the same transaction are both reported new only if a
\* block took the transaction out of the pool in between.
C8_RelayOnlyWhenNewlyPooled ==
    /\ \A t \in Tasks :
        call[t].callee = "received_transaction" =>
            /\ pc[t] # "done" => sent[t] = <<>>
            /\ pc[t] = "done" =>
                 IF loc[t].insertion = "some"
                 THEN /\ loc[t].fanouts = 1
                      /\ ExactlyOnceTo(sent[t], "Transaction", call[t].data,
                                       Unwrap(call[t].peers) \ {call[t].remote, local_address})
                 ELSE loc[t].fanouts = 0 /\ sent[t] = <<>>
    /\ \A t, u \in Tasks :
        (/\ t # u
         /\ call[t].callee = "received_transaction" /\ call[u].callee = "received_transaction"
         /\ call[t].data = call[u].data
         /\ loc[t].insertion = "some" /\ loc[u].insertion = "some") =>
            \E w \in Tasks : call[t].data \in loc[w].removed

\* C8 witness: the same transaction from two sources; the first is pooled and
\* relayed, the second finds it pooled and sends nothing.
C8_Witness ==
    \E t, u \in Tasks :
        /\ pc[t] = "done" /\ pc[u] = "done"
        /\ call[t].callee = "received_transaction" /\ call[u].callee = "received_transaction"
        /\ call[t].data = call[u].data
        /\ call[t].peers = Some(Addrs) /\ call[u].peers = Some(Addrs)
        /\ loc[t].insertion = "some" /\ Len(sent[t]) >= 1
        /\ loc[u].insertion = "dup" /\ sent[u] = <<>>

\* C9: received_sync sends one GetBlock to remote_address per entry of the
\* list, in list order, repeated hashes and repeated invocations included, and
\* returns success.
C9_OneGetBlockPerHash ==
    \A t \in Tasks :
        call[t].callee = "received_sync" =>
            /\ sent[t] = [i \in 1..loc[t].next_index |->
                            Request("GetBlock", call[t].remote, <<call[t].data[i]>>)]
            /\ pc[t] = "done" => (loc[t].next_index = Len(call[t].data) /\ ret[t] = "ok")

\* C9 witness: the same list, holding one hash twice, handled by two
\* invocations; each sends both requests.
C9_Witness ==
    \E t, u \in Tasks :
        /\ t # u
        /\ pc[t] = "done" /\ pc[u] = "done"
        /\ call[t].callee = "received_sync" /\ call[u].callee = "received_sync"
        /\ call[t].remote = call[u].remote
        /\ call[t].data = call[u].data
        /\ Len(call[t].data) = 2 /\ call[t].data[1] = call[t].data[2]
        /\ Len(sent[t]) = 2 /\ Len(sent[u]) = 2

\* C10: received_block relays exactly when the hash was absent at the existence
\* check, receive_block returned success and a peer directory was supplied, and
\* then to the directory minus the sender and the local address; otherwise it
\* sends nothing; it returns success whenever the envelope decodes.
C10_RelayIffNewAndPeers ==
    \A t \in Tasks :
        call[t].callee = "received_block" =>
            LET relays == /\ Deserializes(call[t].data)
                          /\ ~loc[t].exists_at_check
                          /\ loc[t].validations = 1
                          /\ loc[t].is_new_block
                          /\ IsSome(call[t].peers)
            IN /\ pc[t] # "done" => sent[t] = <<>>
               /\ pc[t] = "done" =>
                    /\ loc[t].fanouts = (IF relays THEN 1 ELSE 0)
                    /\ IF relays
                       THEN ExactlyOnceTo(sent[t], "Block", call[t].data,
                                          Unwrap(call[t].peers) \ {call[t].remote, local_address})
                       ELSE sent[t] = <<>>
                    /\ Deserializes(call[t].data) => ret[t] = "ok"
                    /\ loc[t].exists_at_check => loc[t].validations = 0

\* C10 witness: a new block relayed to the one peer that is neither its sender
\* nor this node, next to a call whose receive_block failed and one without a
\* peer directory.
C10_Witness ==
    \E t, u \in Tasks :
        /\ pc[t] = "done" /\ pc[u] = "done"
        /\ call[t].callee = "received_block" /\ call[u].callee = "received_block"
        /\ loc[t].is_new_block
        /\ call[t].remote # local_address
        /\ call[t].peers = Some(Addrs)
        /\ Len(sent[t]) = NumAddrs - 2
        /\ loc[u].validations = 1 /\ ~loc[u].is_new_block
        /\ IsSome(call[u].peers)
        /\ sent[u] = <<>> /\ ret[u] = "ok"

\* The step is one of task t's handler.
StepOf(t) == <<pc[t], call[t], loc[t], sent[t]>>' # <<pc[t], call[t], loc[t], sent[t]>>

\* C11: received_transaction on bytes that do not parse returns success, does
\* not call verify_transaction, offers nothing to the pool, sends nothing, and
\* none of its steps changes the pool or the storage.
C11_UnparseableDropped ==
    /\ [](\A t \in Tasks :
            (call[t].callee = "received_transaction" /\ ~TxReads(call[t].data)) =>
                /\ loc[t].verified = "none"
                /\ loc[t].insertion = "none"
                /\ loc[t].fanouts = 0
                /\ sent[t] = <<>>
                /\ pc[t] = "done" => ret[t] = "ok")
    /\ [][\A t \in Tasks :
            (StepOf(t) /\ call'[t].callee = "received_transaction" /\ ~TxReads(call'[t].data)) =>
                pool' = pool /\ chain' = chain]_vars

\* C11 witness: unparseable bytes handled on a node with a pooled transaction
\* and a peer the relay would have reached.
C11_Witness ==
    \E t \in Tasks :
        /\ pc[t] = "done"
        /\ call[t].callee = "received_transaction"
        /\ ~TxReads(call[t].data)
        /\ pool # {}
        /\ \E a \in Unwrap(call[t].peers) : a \notin {call[t].remote, local_address}
        /\ ret[t] = "ok"

\* The index of the first entry of the batch that does not parse, Len + 1 when
\* every entry parses.
FirstUnparseable(batch) ==
    IF \E i \in 1..Len(batch) : ~TxReads(batch[i])
    THEN CHOOSE i \in 1..Len(batch) :
            ~TxReads(batch[i]) /\ \A j \in 1..(i - 1) : TxReads(batch[j])
    ELSE Len(batch) + 1

\* C12: received_memory_pool offers the entries before the first unparseable
\* one to the pool, in order, and nothing after it; the pool afterwards is the
\* pool before plus the entries the pool reported new (no rollback); it returns
\* an error exactly when an entry does not parse; it never calls
\* verify_transaction, sends nothing and leaves the storage alone.
C12_BatchAbortsAtFirstBadEntry ==
    /\ [](\A t \in Tasks :
            (call[t].callee = "received_memory_pool" /\ pc[t] = "done") =>
                LET batch == call[t].data
                    k == FirstUnparseable(batch)
                IN /\ loc[t].parsed = k - 1
                   /\ Len(loc[t].insertions) = k - 1
                   /\ ret[t] = (IF k <= Len(batch) THEN "err" ELSE "ok")
                   /\ loc[t].verified = "none"
                   /\ sent[t] = <<>>)
    /\ [][\A t \in Tasks :
            (StepOf(t) /\ call[t].callee = "received_memory_pool") =>
                LET batch == call[t].data
                    k == FirstUnparseable(batch)
                    new == {batch[i] : i \in {j \in 1..(k - 1) : loc'[t].insertions[j] = "some"}}
                IN /\ pool' = pool \cup new
                   /\ new \cap pool = {}
                   /\ \A i \in 1..(k - 1) :
                        loc'[t].insertions[i] = "dup" =>
                            batch[i] \in pool \cup {batch[j] : j \in 1..(i - 1)}
                   /\ chain' = chain]_vars

\* C12 witness: a batch of a new transaction, an unparseable entry and another
\* new transaction; the first stays pooled, the third is never pooled, and the
\* handler returns the error.
C12_Witness ==
    \E t \in Tasks :
        /\ pc[t] = "done"
        /\ call[t].callee = "received_memory_pool"
        /\ Len(call[t].data) = 3
        /\ TxReads(call[t].data[1]) /\ ~TxReads(call[t].data[2]) /\ TxReads(call[t].data[3])
        /\ call[t].data[1] # call[t].data[3]
        /\ loc[t].insertions = <<"some">>
        /\ call[t].data[1] \in pool
        /\ call[t].data[3] \notin pool
        /\ ret[t] = "err"

\* The set of the entries of a sequence.
Range(s) == {s[i] : i \in 1..Len(s)}

\* C13 as claimed: no message when the pool is empty, otherwise exactly one
\* MemoryPool message to remote_address holding every pooled transaction of
\* the snapshot; the handler returns success.
C13_WholePoolSent ==
    \A t \in Tasks :
        (call[t].callee = "received_get_memory_pool" /\ pc[t] = "done") =>
            /\ ret[t] = "ok"
            /\ IF loc[t].snapshot = {}
               THEN sent[t] = <<>>
               ELSE /\ Len(sent[t]) = 1
                    /\ sent[t][1].kind = "MemoryPool"
                    /\ sent[t][1].to = call[t].remote
                    /\ Range(sent[t][1].payload) = {to_bytes(tx) : tx \in loc[t].snapshot}

\* C13 amended: the batch holds, once each, the serialized form of every
\* transaction of the snapshot whose serialization succeeded; when that batch
\* is empty (the pool was empty or no entry serialized) nothing is sent,
\* otherwise exactly one MemoryPool message goes to remote_address; the handler
\* returns success and none of its steps changes the pool or the storage.
C13_SerializedPoolSent ==
    /\ [](\A t \in Tasks :
            call[t].callee = "received_get_memory_pool" =>
                /\ pc[t] # "done" => sent[t] = <<>>
                /\ pc[t] = "done" =>
                     LET batch == {to_bytes(tx) : tx \in loc[t].snapshot \ loc[t].unserializable}
                     IN /\ ret[t] = "ok"
                        /\ IF batch = {}
                           THEN sent[t] = <<>>
                           ELSE /\ Len(sent[t]) = 1
                                /\ sent[t][1].kind = "MemoryPool"
                                /\ sent[t][1].to = call[t].remote
                                /\ Range(sent[t][1].payload) = batch
                                /\ Len(sent[t][1].payload) = Cardinality(batch))
    /\ [][\A t \in Tasks :
            (StepOf(t) /\ call'[t].callee = "received_get_memory_pool") =>
                /\ pool' = pool /\ chain' = chain
                /\ pc[t] = "gmp_snapshot" => loc'[t].snapshot = pool]_vars

\* C13 witness: a pool of several transactions, one of which fails to
\* serialize; the reply carries the others.
C13_Witness ==
    \E t \in Tasks :
        /\ pc[t] = "done"
        /\ call[t].callee = "received_get_memory_pool"
        /\ Cardinality(loc[t].snapshot) >= 3
        /\ Cardinality(loc[t].unserializable) = 1
        /\ Len(sent[t]) = 1
        /\ Len(sent[t][1].payload) = Cardinality(loc[t].snapshot) - 1
        /\ pool = loc[t].snapshot

\* C13, the scenario of the empty pool.
C13_ReachedEmptyPool ==
    \E t \in Tasks :
        /\ pc[t] = "done"
        /\ call[t].callee = "received_get_memory_pool"
        /\ loc[t].snapshot = {}
        /\ sent[t] = <<>>

\* C14 as claimed: a SyncBlock with the stored block's bytes goes to
\* remote_address whenever the requested hash is stored; nothing is sent and
\* the handler returns success when it is not.
C14_FoundAlwaysSent ==
    \A t \in Tasks :
        (call[t].callee = "received_get_block" /\ pc[t] = "done") =>
            IF IsSome(loc[t].block)
            THEN /\ Len(sent[t]) = 1
                 /\ sent[t][1].kind = "SyncBlock"
                 /\ sent[t][1].to = call[t].remote
            ELSE sent[t] = <<>> /\ ret[t] = "ok"

\* C14 amended: when the hash is stored and the block serializes, exactly one
\* SyncBlock with the bytes of the block of that hash goes to remote_address
\* and the handler returns success; when the block does not serialize the
\* handler returns the error and sends nothing; when the hash is not stored it
\* sends nothing and returns success.  No step changes the storage or the pool.
C14_SyncBlockWhenFoundAndSerialized ==
    /\ [](\A t \in Tasks :
            call[t].callee = "received_get_block" =>
                /\ pc[t] # "done" => sent[t] = <<>>
                /\ pc[t] = "done" =>
                     IF IsSome(loc[t].block)
                     THEN IF loc[t].failed_lookup = "serialize"
                          THEN sent[t] = <<>> /\ ret[t] = "err"
                          ELSE /\ Len(sent[t]) = 1
                               /\ sent[t][1].kind = "SyncBlock"
                               /\ sent[t][1].to = call[t].remote
                               /\ Deserializes(sent[t][1].payload)
                               /\ BlockStruct(sent[t][1].payload).hash = call[t].data[1]
                               /\ ret[t] = "ok"
                     ELSE sent[t] = <<>> /\ ret[t] = "ok")
    /\ [][\A t \in Tasks :
            (StepOf(t) /\ call'[t].callee = "received_get_block") =>
                /\ pool' = pool /\ chain' = chain
                /\ pc[t] = "gb_lookup" =>
                     (IsSome(loc'[t].block) <=> block_hash_exists(chain, call[t].data[1]))]_vars

\* C14 witness: the block at height 1 is requested and sent.
C14_Witness ==
    \E t \in Tasks :
        /\ pc[t] = "done"
        /\ call[t].callee = "received_get_block"
        /\ call[t].data = <<HeaderHash(1, 0)>>
        /\ sent[t] = <<Request("SyncBlock", call[t].remote, <<1, 0>>)>>
        /\ ret[t] = "ok"

\* C14, the lookup miss.
C14_ReachedMiss ==
    \E t \in Tasks :
        /\ pc[t] = "done"
        /\ call[t].callee = "received_get_block"
        /\ ~block_hash_exists(chain, call[t].data[1])
        /\ sent[t] = <<>> /\ ret[t] = "ok"

\* C15: received_block on an envelope that does not deserialize returns an
\* error without an existence check, without calling receive_block and without
\* a send, with or without a peer directory, and none of its steps changes the
\* storage or the pool.
C15_UndecodableBlockIsError ==
    /\ [](\A t \in Tasks :
            (call[t].callee = "received_block" /\ ~Deserializes(call[t].data)) =>
                /\ ~loc[t].exists_at_check
                /\ loc[t].validations = 0
                /\ loc[t].fanouts = 0
                /\ sent[t] = <<>>
                /\ pc[t] \in {"rb_check", "done"}
                /\ pc[t] = "done" => ret[t] = "err")
    /\ [][\A t \in Tasks :
            (StepOf(t) /\ call'[t].callee = "received_block" /\ ~Deserializes(call'[t].data)) =>
                pool' = pool /\ chain' = chain]_vars

\* C15 witness: an undecodable envelope that came with a peer directory the
\* relay would have used.
C15_Witness ==
    \E t \in Tasks :
        /\ pc[t] = "done"
        /\ call[t].callee = "received_block"
        /\ ~Deserializes(call[t].data)
        /\ IsSome(call[t].peers)
        /\ \E a \in Unwrap(call[t].peers) : a \notin {call[t].remote, local_address}
        /\ ret[t] = "err"

\* C15, the call without a peer directory.
C15_ReachedWithoutPeers ==
    \E t \in Tasks :
        /\ pc[t] = "done"
        /\ call[t].callee = "received_block"
        /\ ~Deserializes(call[t].data)
        /\ call[t].peers = None
        /\ ret[t] = "err"

\* C19: update sends exactly one GetSync, to the sync node and carrying the
\* locator hashes of the storage, exactly when the node is not a bootnode, a
\* sync node was supplied and the storage returned the locator hashes; otherwise
\* it sends nothing; it returns success and none of its steps changes the
\* storage or the pool.
C19_GetSyncIffSyncNodeAndLocator ==
    /\ [](\A t \in Tasks :
            call[t].callee = "update" =>
                /\ pc[t] # "done" => sent[t] = <<>>
                /\ pc[t] = "done" =>
                     /\ ret[t] = "ok"
                     /\ IF /\ ~call[t].data[1]
                           /\ IsSome(call[t].peers)
                           /\ loc[t].failed_lookup # "get_block_locator_hashes"
                        THEN sent[t] = <<Request("GetSync", Unwrap(call[t].peers),
                                                 loc[t].block_hashes)>>
                        ELSE sent[t] = <<>>)
    /\ [][\A t \in Tasks :
            (StepOf(t) /\ call'[t].callee = "update") =>
                /\ pool' = pool /\ chain' = chain
                /\ (pc[t] = "up_locator" /\ pc'[t] = "up_send"
                        /\ loc'[t].failed_lookup # "get_block_locator_hashes") =>
                     loc'[t].block_hashes = get_block_locator_hashes(chain)]_vars

\* C19 witness: a node with a chain of two blocks asks its sync node, tip hash
\* first.
C19_Witness ==
    \E t \in Tasks :
        /\ pc[t] = "done"
        /\ call[t].callee = "update"
        /\ IsSome(call[t].peers)
        /\ sent[t] = <<Request("GetSync", Unwrap(call[t].peers),
                               <<HeaderHash(1, 0), HeaderHash(0, 0)>>)>>

\* C19, the cases without a request: a bootnode, no sync node, no locator.
C19_ReachedBootnode ==
    \E t \in Tasks :
        /\ pc[t] = "done" /\ call[t].callee = "update"
        /\ call[t].data[1] /\ IsSome(call[t].peers) /\ sent[t] = <<>>

C19_ReachedNoSyncNode ==
    \E t \in Tasks :
        /\ pc[t] = "done" /\ call[t].callee = "update"
        /\ ~call[t].data[1] /\ call[t].peers = None
        /\ loc[t].failed_lookup = "none" /\ sent[t] = <<>>

C19_ReachedNoLocator ==
    \E t \in Tasks :
        /\ pc[t] = "done" /\ call[t].callee = "update"
        /\ ~call[t].data[1] /\ IsSome(call[t].peers)
        /\ loc[t].failed_lookup = "get_block_locator_hashes" /\ sent[t] = <<>>

\* C18: received_transaction returns an error exactly when the transaction
\* parses and verify_transaction returns Err, and then it has offered nothing
\* to the pool and sent nothing; on every other path it returns success.  A
\* step of the handler changes the pool only by the insertion of a verified
\* transaction.
C18_ErrorIffVerifyErr ==
    /\ [](\A t \in Tasks :
            call[t].callee = "received_transaction" =>
                /\ pc[t] = "done" =>
                     (ret[t] = "err" <=> (TxReads(call[t].data) /\ loc[t].verified = "err"))
                /\ pc[t] = "done" => ret[t] \in {"ok", "err"}
                /\ loc[t].verified # "true" =>
                     /\ loc[t].insertion = "none"
                     /\ loc[t].fanouts = 0
                     /\ sent[t] = <<>>)
    /\ [][\A t \in Tasks :
            (StepOf(t) /\ call'[t].callee = "received_transaction") =>
                /\ chain' = chain
                /\ pool' # pool =>
                     /\ loc[t].verified = "true"
                     /\ loc'[t].insertion = "some"
                     /\ pool' = pool \cup {call[t].data}]_vars

\* C18 witness: verify_transaction returns Err for a transaction the pool does
\* not hold, with a peer the relay would have reached.
C18_Witness ==
    \E t \in Tasks :
        /\ pc[t] = "done"
        /\ call[t].callee = "received_transaction"
        /\ TxReads(call[t].data) /\ ~IsNegative(call[t].data)
        /\ loc[t].verified = "err"
        /\ ret[t] = "err"
        /\ call[t].data \notin pool
        /\ \E a \in Unwrap(call[t].peers) : a \notin {call[t].remote, local_address}

\* C18, the paths that return success: verify_transaction false, the pool
\* reports a duplicate, the pool fails, the relay is performed.
C18_ReachedVerifyFalse ==
    \E t \in Tasks :
        /\ pc[t] = "done" /\ call[t].callee = "received_transaction"
        /\ loc[t].verified = "false" /\ ret[t] = "ok"

C18_ReachedDuplicate ==
    \E t \in Tasks :
        /\ pc[t] = "done" /\ call[t].callee = "received_transaction"
        /\ loc[t].insertion = "dup" /\ ret[t] = "ok"

C18_ReachedPoolFailure ==
    \E t \in Tasks :
        /\ pc[t] = "done" /\ call[t].callee = "received_transaction"
        /\ loc[t].insertion = "err" /\ ret[t] = "ok"

C18_ReachedRelay ==
    \E t \in Tasks :
        /\ pc[t] = "done" /\ call[t].callee = "received_transaction"
        /\ loc[t].insertion = "some" /\ Len(sent[t]) = 1 /\ ret[t] = "ok"

\* C16: a handler hands a request to the outbound handler only while it holds
\* neither the storage lock nor the pool lock, in every interleaving.
C16_NoLockHeldAcrossSend ==
    [][\A t \in Tasks :
         sent'[t] # sent[t] => (loc[t].locks = <<>> /\ loc'[t].locks = <<>>)]_vars

\* C16 witness: a received_get_sync that took its two storage read locks and a
\* received_block that took the storage lock twice and the pool lock have both
\* sent their message and hold nothing.
C16_Witness ==
    \E t, u \in Tasks :
        /\ call[t].callee = "received_get_sync" /\ pc[t] = "done"
        /\ loc[t].acquired = 2 /\ Len(sent[t]) = 1 /\ loc[t].locks = <<>>
        /\ call[u].callee = "received_block" /\ pc[u] = "done"
        /\ loc[u].acquired = 3 /\ Len(sent[u]) = 1 /\ loc[u].locks = <<>>

\* The handler was invoked and has not returned with its guards dropped.
Returned(t) == pc[t] = "done" /\ loc[t].locks = <<>>
Running(t) == pc[t] # "idle" /\ ~Returned(t)

\* C17: whenever a handler is running some running handler can take a step (no
\* deadlock on the two locks), and every invocation returns in the end, holding
\* no lock.
C17_NoDeadlockOnLocks ==
    /\ []((\E t \in Tasks : Running(t)) => (\E t \in Tasks : Running(t) /\ ENABLED TaskStep(t)))
    /\ \A t \in Tasks : (pc[t] # "idle") ~> Returned(t)

\* C17 witness: received_block holds a storage read lock and waits for the pool
\* mutex, which a received_transaction holds while it takes a storage read lock.
C17_Witness ==
    \E t, u \in Tasks :
        /\ call[t].callee = "received_block" /\ pc[t] = "rb_receive"
        /\ loc[t].locks = <<"storage">>
        /\ ~ENABLED Acquire(t)
        /\ call[u].callee = "received_transaction" /\ pc[u] = "rt_insert"
        /\ loc[u].locks = <<"pool">>
        /\ ENABLED Acquire(u)

\* C17, the recursive read lock: received_get_sync holds two read guards while
\* a received_memory_pool holds the pool mutex and a read guard.
C17_ReachedRecursiveRead ==
    \E t, u \in Tasks :
        /\ call[t].callee = "received_get_sync" /\ loc[t].locks = <<"storage", "storage">>
        /\ call[u].callee = "received_memory_pool" /\ loc[u].locks = <<"pool", "storage">>

\* The received_block invocations of this node in a two-node exchange.
FetchedBy(t) == t \in RequesterTasks /\ call[t].callee = "received_block"

\* update has sent its GetSync.
GetSyncSent == sent[1] # <<>>

\* This node's tip is at the height of its sync node's tip.
CaughtUp == Len(chain) = Len(SyncNodeStorage)

\* A storage lookup or a serialization of the sync node returned Err.
SyncNodeFault ==
    \E t \in SyncNodeTasks : ret[t] = "err" \/ loc[t].failed_lookup # "none"

\* Every fetched block is validated at most once.
ValidatedAtMostOnce ==
    /\ \A t \in RequesterTasks : FetchedBy(t) => loc[t].validations <= 1
    /\ \A t, u \in RequesterTasks :
         (FetchedBy(t) /\ FetchedBy(u) /\ t # u /\ call[t].data = call[u].data) =>
             loc[t].validations + loc[u].validations <= 1

\* Every fetched block is stored at most once and none is relayed.
StoredAtMostOnceNoneRelayed ==
    /\ \A t \in RequesterTasks : FetchedBy(t) => sent[t] = <<>>
    /\ \A i, j \in 1..Len(chain) : chain[i] = chain[j] => i = j

C20_ReachedRepeatedGetSync ==
    /\ CaughtUp
    /\ \E t, u \in SyncNodeTasks :
         t # u /\ call[t].callee = "received_get_sync" /\ call[u].callee = "received_get_sync"
    /\ \A t \in ExchangeTasks : pc[t] \in {"idle", "done"}

\* A lookup of the sync node failed and this node stays behind for good.
C20_ReachedStuckBehind ==
    /\ GetSyncSent /\ ~CaughtUp /\ SyncNodeFault
    /\ ~ENABLED ExchangeNext

\* The exchange never runs out of tasks: when nothing is running and nothing
\* is left to deliver for the first time, no step is missing for want of one.
ExchangeTasksSuffice ==
    \A sgn \in {-1, 1} :
        (~Busy(sgn) /\ FirstDeliveries(sgn, Inbox(sgn), Deliveries(sgn)) < Len(Inbox(sgn))) =>
            DeliveryTask(sgn, Deliveries(sgn) + 1) \in TasksOf(sgn)

=============================================================================
